---- MODULE Spec2Model ----
(***************************************************************************)
(* Model of src/internal/ast/python/extractor.py: the PythonASTExtractor   *)
(* tree walk, the call-graph and export passes, the result assembly of     *)
(* extract() and main(), and the type normalizer.                          *)
(*                                                                         *)
(* Text (identifiers, call names, type strings) is a sequence of           *)
(* one-character strings, so that startswith, isupper, find and the        *)
(* character loop of _parse_type_parameters are computed as the code       *)
(* computes them.                                                          *)
(*                                                                         *)
(* The syntax tree is the input of the walk.  NodeVisitor visits it depth  *)
(* first, so a tree is the well-nested sequence of visit entries and       *)
(* returns that the walk actions take.  Spec walks every tree of function  *)
(* definitions, class definitions and calls, SpecDecl every tree of        *)
(* definitions, assignments and imports, of at most MaxNodes nodes and     *)
(* nesting depth MaxDepth; SpecNorm applies the type normalizer to texts,   *)
(* SpecSig _extract_function to function definition nodes.                 *)
(***************************************************************************)
EXTENDS Integers, Sequences, FiniteSets, TLC

\* Bounds of the model.
MaxNodes == 4
MaxDepth == 3
MaxApply == 2
MaxParamLen == 5
MaxArgs == 2

VARIABLES
    family,         \* the trees this run draws from: "calls" or "decls"
    pc,             \* position in main() / extract()
    nodes,          \* number of syntax-tree nodes visited so far
    frames,         \* active visit_FunctionDef / visit_ClassDef calls, innermost last
    funcs,          \* heap of func_info dicts, in creation order
    clss,           \* heap of class_info dicts, in creation order
    functions,      \* self.functions: indices into funcs
    classes,        \* self.classes: indices into clss
    variables,      \* self.variables
    constants,      \* self.constants
    imports,        \* self.imports
    exports,        \* self.exports
    current_class,  \* self.current_class: index into clss, 0 for None
    call_stack,     \* self.call_stack
    scope_stack,    \* self.scope_stack
    result,         \* the record extract() returned, NoRecord before
    out,            \* the records main() printed
    exit_code,      \* process exit status, -1 while running
    defsites,       \* the tree walked so far: per func_info, where its def stands
    sites,          \* the tree walked so far: the calls inside function bodies
    failed,         \* the failures that occurred in this run, in order
    nIn,            \* normalizer: the text handed to the function under test
    nOut,           \* normalizer: what it returned
    nPrev,          \* normalizer: what the previous application returned
    nParams,        \* normalizer: the list _parse_type_parameters returned
    nMode,          \* normalizer: which function is under test
    nApplied,       \* normalizer: number of applications so far
    sNode,          \* signature: the function definition node handed over
    sClass,         \* signature: whether self.current_class is set
    sInfo,          \* signature: the func_info _extract_function returned
    sDone           \* signature: whether _extract_function has returned

walkVars == <<pc, nodes, frames, funcs, clss, functions, classes, variables,
              constants, imports, exports, current_class, call_stack,
              scope_stack, result, out, exit_code, defsites, sites, failed>>
normVars == <<nIn, nOut, nPrev, nParams, nMode, nApplied>>
sigVars == <<sNode, sClass, sInfo, sDone>>
vars == <<family, pc, nodes, frames, funcs, clss, functions, classes, variables,
          constants, imports, exports, current_class, call_stack,
          scope_stack, result, out, exit_code, defsites, sites, failed,
          nIn, nOut, nPrev, nParams, nMode, nApplied,
          sNode, sClass, sInfo, sDone>>

----------------------------------------------------------------------------
\* Text helpers (Python str methods).

LowerChars == {"a", "b", "c", "d", "e", "f", "g", "h", "i", "j", "k", "l", "m",
               "n", "o", "p", "q", "r", "s", "t", "u", "v", "w", "x", "y", "z"}
UpperChars == {"A", "B", "C", "D", "E", "F", "G", "H", "I", "J", "K", "L", "M",
               "N", "O", "P", "Q", "R", "S", "T", "U", "V", "W", "X", "Y", "Z"}

\* s.startswith(p)
StartsWith(s, p) == Len(s) >= Len(p) /\ SubSeq(s, 1, Len(p)) = p

\* s.endswith(p)
EndsWith(s, p) == Len(s) >= Len(p) /\ SubSeq(s, Len(s) - Len(p) + 1, Len(s)) = p

\* c in s, for a one-character c
HasChar(s, c) == \E i \in 1..Len(s) : s[i] = c

\* s.isupper(): at least one cased character and no lowercase one
IsUpper(s) ==
    /\ \E i \in 1..Len(s) : s[i] \in UpperChars
    /\ \A i \in 1..Len(s) : s[i] \notin LowerChars

----------------------------------------------------------------------------
\* Inputs of the walk: the identifiers and callee shapes the trees use.

FuncNames ==
    IF family = "calls" THEN {<<"a">>, <<"b">>} ELSE {<<"a">>, <<"_", "h">>}
AsyncNames == {<<"b">>}
ClassNames ==
    IF family = "calls" THEN {<<"C">>} ELSE {<<"C">>, <<"_", "K">>}
VarNames == {<<"x">>, <<"X">>, <<"_", "X">>, <<"_", "_", "X">>}

\* The callee expressions (node.func) of the call nodes.
Callees ==
    [kind : {"Name"}, id : {<<"b">>}, value : {<<>>}]
    \cup [kind : {"Attribute"}, id : {<<"b">>},
          value : {<<"s", "e", "l", "f">>, <<"o">>}]

NoRecord == [kind |-> "none"]

\* A failure record that keeps what the walk had gathered.
ErrorRecordKeepsData(msg) ==
    [kind |-> "record", functions |-> functions, types |-> classes,
     variables |-> variables, constants |-> constants, imports |-> imports,
     exports |-> exports, errors |-> <<msg>>]

\* The record of the failure paths (lines 56-66, 679-689, 694-704).
ErrorRecord(msg) ==
    [kind |-> "record", functions |-> <<>>, types |-> <<>>,
     variables |-> <<>>, constants |-> <<>>, imports |-> <<>>,
     exports |-> <<>>, errors |-> <<msg>>]

----------------------------------------------------------------------------
\* __init__ (lines 18-30) and the start of main().

WalkInit ==
    /\ pc = "main"
    /\ nodes = 0
    /\ frames = <<>>
    /\ funcs = <<>>
    /\ clss = <<>>
    /\ functions = <<>>
    /\ classes = <<>>
    /\ variables = <<>>
    /\ constants = <<>>
    /\ imports = <<>>
    /\ exports = <<>>
    /\ current_class = 0
    /\ call_stack = <<>>
    /\ scope_stack = <<<<"module">>>>
    /\ result = NoRecord
    /\ out = <<>>
    /\ exit_code = -1
    /\ defsites = <<>>
    /\ sites = <<>>
    /\ failed = <<>>

NormIdle ==
    /\ nIn = <<>>
    /\ nOut = <<>>
    /\ nPrev = <<>>
    /\ nParams = <<>>
    /\ nMode = "idle"
    /\ nApplied = 0

SigIdle ==
    /\ sNode = <<>>
    /\ sClass = FALSE
    /\ sInfo = <<>>
    /\ sDone = FALSE

Init == family = "calls" /\ WalkInit /\ NormIdle /\ SigIdle

InitDecl == family = "decls" /\ WalkInit /\ NormIdle /\ SigIdle

----------------------------------------------------------------------------
\* Pure helpers of the walk.

Last(s) == s[Len(s)]
Front(s) == SubSeq(s, 1, Len(s) - 1)

\* _is_constant (lines 315-317): `a or b and c` groups as a or (b and c).
is_constant(name) ==
    IsUpper(name) \/ (StartsWith(name, <<"_">>) /\ IsUpper(Tail(name)))

\* A visibility test that takes only a double underscore for private.
IsPublicNameDunder(name) == ~StartsWith(name, <<"_", "_">>)

\* "is_exported": not name.startswith("_") (lines 300, 312; 632, 643).
IsPublicName(name) == ~StartsWith(name, <<"_">>)

\* _extract_call_name (lines 214-223): a Name gives its id, anything else
\* its unparsed text; here value.attr for an Attribute and id() for a call
\* whose callee is itself a call.
extract_call_name(func) ==
    CASE func.kind = "Name" -> func.id
      [] func.kind = "Attribute" -> func.value \o <<".">> \o func.id
      [] OTHER -> func.id \o <<"(", ")">>

\* _classify_call (lines 225-234).
classify_call(func) ==
    CASE func.kind = "Name" -> "function"
      [] func.kind = "Attribute" ->
            IF func.value = <<"s", "e", "l", "f">> THEN "method" ELSE "attribute"
      [] OTHER -> "complex"

\* The indices of seq (a list of heap indices) whose record in heap has the name.
NamedAt(heap, seq, name) == {i \in 1..Len(seq) : heap[seq[i]].name = name}

Max(S) == CHOOSE m \in S : \A k \in S : k <= m
Min(S) == CHOOSE m \in S : \A k \in S : m <= k

\* Lines 585-588: the last record of self.functions with that name, or none.
FunctionTarget(func_name) ==
    LET hit == NamedAt(funcs, functions, func_name)
    IN  IF hit = {} THEN {} ELSE {functions[Max(hit)]}

\* Lines 591-595: the first method of the current class with that name, or none.
MethodTarget(func_name) ==
    IF current_class = 0 THEN {}
    ELSE LET ms == clss[current_class].methods
             hit == NamedAt(funcs, ms, func_name)
         IN  IF hit = {} THEN {} ELSE {ms[Min(hit)]}

\* _add_call_to_current_function (lines 582-595): the heap after the call.
add_call_to_current_function(func_name, call_info) ==
    LET targets == FunctionTarget(func_name) \cup MethodTarget(func_name)
    IN  [i \in 1..Len(funcs) |->
            IF i \in targets
            THEN [funcs[i] EXCEPT !.calls = Append(@, call_info)]
            ELSE funcs[i]]

----------------------------------------------------------------------------
\* main() up to the walk (lines 662-675) and ast.parse (line 35).

\* The process has ended: of its state only the output and the exit status
\* remain.
ProcessExit ==
    /\ pc' = "done"
    /\ nodes' = 0
    /\ frames' = <<>>
    /\ funcs' = <<>>
    /\ clss' = <<>>
    /\ functions' = <<>>
    /\ classes' = <<>>
    /\ variables' = <<>>
    /\ constants' = <<>>
    /\ imports' = <<>>
    /\ exports' = <<>>
    /\ current_class' = 0
    /\ call_stack' = <<>>
    /\ scope_stack' = <<<<"module">>>>
    /\ result' = NoRecord
    /\ defsites' = <<>>
    /\ sites' = <<>>

\* Lines 666-672: the source text is read from the file or from stdin.
MainRead ==
    /\ pc = "main"
    /\ pc' = "extract"
    /\ UNCHANGED <<nodes, frames, funcs, clss, functions, classes, variables,
                   constants, imports, exports, current_class, call_stack,
                   scope_stack, result, out, exit_code>>
    /\ UNCHANGED <<defsites, sites, failed>>
    /\ UNCHANGED <<family, normVars, sigVars>>

\* Lines 678-691: open() raised FileNotFoundError.
MainFileNotFound ==
    /\ pc = "main"
    /\ out' = Append(out, ErrorRecord("File not found"))
    /\ exit_code' = 1
    /\ failed' = Append(failed, "file not found")
    /\ ProcessExit
    /\ UNCHANGED <<family, normVars, sigVars>>

\* Lines 693-706: any other exception in main(): the read failed (a
\* directory, undecodable bytes) or json.dumps/print raised after extract()
\* before anything was written.
MainFatal ==
    /\ pc \in {"main", "returned"}
    /\ out' = Append(out, ErrorRecord("Fatal error"))
    /\ exit_code' = 1
    /\ failed' = Append(failed, IF pc = "main" THEN "read" ELSE "emit")
    /\ ProcessExit
    /\ UNCHANGED <<family, normVars, sigVars>>

\* Line 35: ast.parse succeeded; line 36 starts the visit of the module.
ParseOk ==
    /\ pc = "extract"
    /\ pc' = "walk"
    /\ UNCHANGED <<nodes, frames, funcs, clss, functions, classes, variables,
                   constants, imports, exports, current_class, call_stack,
                   scope_stack, result, out, exit_code>>
    /\ UNCHANGED <<defsites, sites, failed>>
    /\ UNCHANGED <<family, normVars, sigVars>>

\* ast.parse outside the try: its exception reaches the handler of main().
ParseFailEscapes ==
    /\ pc = "extract"
    /\ out' = Append(out, ErrorRecord("Fatal error"))
    /\ exit_code' = 1
    /\ failed' = Append(failed, "parse")
    /\ ProcessExit
    /\ UNCHANGED <<family, normVars, sigVars>>

\* Lines 35, 55-66: ast.parse raised.
ParseFail ==
    /\ pc = "extract"
    /\ result' = ErrorRecord("Parse error")
    /\ pc' = "returned"
    /\ failed' = Append(failed, "parse")
    /\ UNCHANGED <<nodes, frames, funcs, clss, functions, classes, variables,
                   constants, imports, exports, current_class, call_stack,
                   scope_stack, out, exit_code, defsites, sites>>
    /\ UNCHANGED <<family, normVars, sigVars>>

----------------------------------------------------------------------------
\* The visitor methods.  A visit of a definition is two actions, its part
\* before generic_visit(node) and its part after; the visits of the
\* children lie between them.

CanVisit == pc = "walk" /\ nodes < MaxNodes

\* The definition whose body is being visited: the innermost active visit.
Parent ==
    IF frames = <<>> THEN [kind |-> "module", node |-> 0]
    ELSE [kind |-> Last(frames).kind, node |-> Last(frames).node]

\* The func_info of the innermost function definition being visited, 0
\* outside every function.
Enclosing ==
    LET open == {k \in 1..Len(frames) : frames[k].kind = "func"}
    IN  IF open = {} THEN 0 ELSE frames[Max(open)].node

\* _extract_function (lines 157-168) and the routing of lines 71-79 / 91-96.
\* visit_AsyncFunctionDef sets "is_method" only for a method.
FuncInfo(name, async) ==
    [name |-> name,
     is_async |-> async,
     is_method |-> IF current_class # 0 THEN "True"
                   ELSE IF async THEN "absent" ELSE "False",
     class_name |-> IF current_class # 0 THEN clss[current_class].name ELSE <<>>,
     calls |-> <<>>,
     called_by |-> <<>>,
     calls_functions |-> <<>>,
     start_line |-> nodes + 1]

\* Lines 68-84 and 87-100, up to generic_visit.
EnterFunction(name, async) ==
    /\ CanVisit
    /\ Len(frames) < MaxDepth
    /\ nodes' = nodes + 1
    /\ funcs' = Append(funcs, FuncInfo(name, async))
    /\ IF current_class # 0
       THEN /\ clss' = [clss EXCEPT ![current_class].methods =
                            Append(@, Len(funcs) + 1)]
            /\ UNCHANGED functions
       ELSE /\ functions' = Append(functions, Len(funcs) + 1)
            /\ UNCHANGED clss
    /\ frames' = Append(frames, [kind |-> "func", old_stack |-> call_stack,
                                 old_class |-> 0, node |-> Len(funcs) + 1])
    /\ call_stack' = Append(call_stack, name)
    /\ defsites' = Append(defsites, [parent |-> Parent, encl |-> Enclosing])
    /\ UNCHANGED <<pc, classes, variables, constants, imports, exports,
                   current_class, scope_stack, result, out, exit_code, sites,
                   failed>>
    /\ UNCHANGED <<family, normVars, sigVars>>

visit_FunctionDef == \E name \in FuncNames : EnterFunction(name, FALSE)

visit_AsyncFunctionDef == \E name \in AsyncNames : EnterFunction(name, TRUE)

\* Lines 85 and 101: self.call_stack = old_stack.
FunctionDefReturn ==
    /\ pc = "walk"
    /\ frames # <<>>
    /\ Last(frames).kind = "func"
    /\ call_stack' = Last(frames).old_stack
    /\ frames' = Front(frames)
    /\ UNCHANGED <<pc, nodes, funcs, clss, functions, classes, variables,
                   constants, imports, exports, current_class, scope_stack,
                   result, out, exit_code>>
    /\ UNCHANGED <<defsites, sites, failed>>
    /\ UNCHANGED <<family, normVars, sigVars>>

\* Lines 170-190, up to generic_visit.
visit_ClassDef ==
    \E name \in ClassNames :
        /\ CanVisit
        /\ Len(frames) < MaxDepth
        /\ nodes' = nodes + 1
        /\ clss' = Append(clss, [name |-> name, methods |-> <<>>,
                                 start_line |-> nodes + 1])
        /\ frames' = Append(frames, [kind |-> "class", old_stack |-> <<>>,
                                     old_class |-> current_class,
                                     node |-> Len(clss) + 1])
        /\ current_class' = Len(clss) + 1
        /\ scope_stack' = Append(scope_stack,
                                 <<"c", "l", "a", "s", "s", ":">> \o name)
        /\ UNCHANGED <<pc, funcs, functions, classes, variables, constants,
                       imports, exports, call_stack, result, out, exit_code,
                       defsites, sites, failed>>
        /\ UNCHANGED <<family, normVars, sigVars>>

\* A return from a class that sets the current class to None.
ClassDefReturnToNone ==
    /\ pc = "walk"
    /\ frames # <<>>
    /\ Last(frames).kind = "class"
    /\ scope_stack' = Front(scope_stack)
    /\ current_class' = 0
    /\ classes' = Append(classes, Last(frames).node)
    /\ frames' = Front(frames)
    /\ UNCHANGED <<pc, nodes, funcs, clss, functions, variables, constants,
                   imports, exports, call_stack, result, out, exit_code>>
    /\ UNCHANGED <<defsites, sites, failed>>
    /\ UNCHANGED <<family, normVars, sigVars>>

\* Lines 192-195.
ClassDefReturn ==
    /\ pc = "walk"
    /\ frames # <<>>
    /\ Last(frames).kind = "class"
    /\ scope_stack' = Front(scope_stack)
    /\ current_class' = Last(frames).old_class
    /\ classes' = Append(classes, Last(frames).node)
    /\ frames' = Front(frames)
    /\ UNCHANGED <<pc, nodes, funcs, clss, functions, variables, constants,
                   imports, exports, call_stack, result, out, exit_code>>
    /\ UNCHANGED <<defsites, sites, failed>>
    /\ UNCHANGED <<family, normVars, sigVars>>

\* Lines 197-212.  The calls nested in the arguments are the next visits.
visit_Call ==
    \E func \in Callees :
        /\ CanVisit
        /\ nodes' = nodes + 1
        /\ IF call_stack # <<>>
           THEN funcs' = add_call_to_current_function(
                            Last(call_stack),
                            [name |-> extract_call_name(func),
                             line |-> nodes + 1,
                             type |-> classify_call(func)])
           ELSE UNCHANGED funcs
        /\ IF Enclosing # 0
           THEN sites' = Append(sites, [name |-> extract_call_name(func),
                                        line |-> nodes + 1,
                                        type |-> classify_call(func),
                                        encl |-> Enclosing])
           ELSE UNCHANGED sites
        /\ UNCHANGED <<pc, frames, clss, functions, classes, variables,
                       constants, imports, exports, current_class, call_stack,
                       scope_stack, result, out, exit_code, defsites, failed>>
        /\ UNCHANGED <<family, normVars, sigVars>>

\* The gate of lines 268 and 280: "Module level".
AtModuleLevel == Len(scope_stack) = 1

\* Lines 268-275 and 280-287 for a target that is a Name; the record is
\* that of _extract_variable / _extract_annotated_variable.
RecordAssignment(name) ==
    /\ CanVisit
    /\ nodes' = nodes + 1
    /\ IF AtModuleLevel
       THEN LET var_info == [name |-> name, line |-> nodes + 1,
                             is_exported |-> IsPublicName(name)]
            IN  IF is_constant(name)
                THEN /\ constants' = Append(constants, var_info)
                     /\ UNCHANGED variables
                ELSE /\ variables' = Append(variables, var_info)
                     /\ UNCHANGED constants
       ELSE UNCHANGED <<variables, constants>>
    /\ UNCHANGED <<pc, frames, funcs, clss, functions, classes, imports,
                   exports, current_class, call_stack, scope_stack, result,
                   out, exit_code>>
    /\ UNCHANGED <<defsites, sites, failed>>
    /\ UNCHANGED <<family, normVars, sigVars>>

visit_Assign == \E name \in VarNames : RecordAssignment(name)

visit_AnnAssign == \E name \in VarNames : RecordAssignment(name)

\* Lines 236-264: one alias of an import statement.
visit_Import ==
    /\ CanVisit
    /\ nodes' = nodes + 1
    /\ imports' = Append(imports, [path |-> <<"o", "s">>, line |-> nodes + 1])
    /\ UNCHANGED <<pc, frames, funcs, clss, functions, classes, variables,
                   constants, exports, current_class, call_stack, scope_stack,
                   result, out, exit_code>>
    /\ UNCHANGED <<defsites, sites, failed>>
    /\ UNCHANGED <<family, normVars, sigVars>>

\* Lines 36, 55-66: a visitor raised (RecursionError on a deep tree, for
\* one); extract() returns the error record, self.* keeps what was gathered.
WalkRaise ==
    /\ pc = "walk"
    /\ result' = ErrorRecord("Parse error")
    /\ pc' = "returned"
    /\ failed' = Append(failed, "walk")
    /\ UNCHANGED <<nodes, frames, funcs, clss, functions, classes, variables,
                   constants, imports, exports, current_class, call_stack,
                   scope_stack, out, exit_code, defsites, sites>>
    /\ UNCHANGED <<family, normVars, sigVars>>

----------------------------------------------------------------------------
\* The passes after the walk.

RECURSIVE Flatten(_)
Flatten(ss) == IF ss = <<>> THEN <<>> ELSE Head(ss) \o Flatten(Tail(ss))

\* Lines 599-601: the top-level functions, then the methods of every class.
AllFunctions ==
    functions \o Flatten([k \in 1..Len(classes) |-> clss[classes[k]].methods])

\* Line 604.
FuncNameSet == {funcs[AllFunctions[k]].name : k \in 1..Len(AllFunctions)}

\* Line 613: the test that makes a raw call a resolved one.
ResolvesLocally(call_name) ==
    ~HasChar(call_name, ".") /\ call_name \in FuncNameSet

\* Lines 608-616: the resolved callee names of one record, in call order.
CallsFunctions(f) ==
    LET hit == SelectSeq(f.calls, LAMBDA c : ResolvesLocally(c.name))
    IN  [k \in 1..Len(hit) |-> hit[k].name]

\* A second pass that appends the name of the callee, not of the caller.
RECURSIVE CallersFromTarget(_, _)
CallersFromTarget(target, k) ==
    IF k > Len(AllFunctions) THEN <<>>
    ELSE LET f == funcs[AllFunctions[k]]
             hit == SelectSeq(CallsFunctions(f), LAMBDA n : n = target)
         IN  [j \in 1..Len(hit) |-> target] \o CallersFromTarget(target, k + 1)

\* Lines 620-626: what the second pass appends to the called_by of the
\* records named target, from the k-th record of all_functions on.
RECURSIVE CallersFrom(_, _)
CallersFrom(target, k) ==
    IF k > Len(AllFunctions) THEN <<>>
    ELSE LET f == funcs[AllFunctions[k]]
             hit == SelectSeq(CallsFunctions(f), LAMBDA n : n = target)
         IN  [j \in 1..Len(hit) |-> f.name] \o CallersFrom(target, k + 1)

\* _build_call_graph (lines 597-626): the heap after the two passes.
build_call_graph ==
    LET all == {AllFunctions[k] : k \in 1..Len(AllFunctions)}
    IN  [i \in 1..Len(funcs) |->
            IF i \in all
            THEN [funcs[i] EXCEPT
                    !.calls_functions = CallsFunctions(funcs[i]),
                    !.called_by = CallersFrom(funcs[i].name, 1)]
            ELSE funcs[i]]

\* The export entries of one collection: hit is the list of its records that
\* pass the visibility test of that loop, in order.
ExportsOf(hit, kind) ==
    [k \in 1..Len(hit) |->
        [name |-> hit[k].name, type |-> kind,
         line |-> IF kind \in {"function", "class"}
                  THEN hit[k].start_line ELSE hit[k].line]]

\* _extract_exports (lines 628-659): what it appends to self.exports.
extract_exports ==
    ExportsOf(SelectSeq([k \in 1..Len(functions) |-> funcs[functions[k]]],
                        LAMBDA r : IsPublicName(r.name)), "function")
    \o ExportsOf(SelectSeq([k \in 1..Len(classes) |-> clss[classes[k]]],
                           LAMBDA r : IsPublicName(r.name)), "class")
    \o ExportsOf(SelectSeq(variables, LAMBDA r : r.is_exported), "variable")
    \o ExportsOf(SelectSeq(constants, LAMBDA r : r.is_exported), "constant")

\* Lines 36-54: self.visit(tree) returned; the call graph is built, the
\* exports are collected and the record is returned.
ExtractReturn ==
    /\ pc = "walk"
    /\ frames = <<>>
    /\ funcs' = build_call_graph
    /\ exports' = exports \o extract_exports
    /\ result' = [kind |-> "record", functions |-> functions,
                  types |-> classes, variables |-> variables,
                  constants |-> constants, imports |-> imports,
                  exports |-> exports', errors |-> <<>>]
    /\ pc' = "returned"
    /\ UNCHANGED <<nodes, frames, clss, functions, classes, variables,
                   constants, imports, current_class, call_stack, scope_stack,
                   out, exit_code, defsites, sites, failed>>
    /\ UNCHANGED <<family, normVars, sigVars>>

\* Line 676, then main() returns: the process ends with status 0.
MainPrint ==
    /\ pc = "returned"
    /\ out' = Append(out, result)
    /\ exit_code' = 0
    /\ UNCHANGED failed
    /\ ProcessExit
    /\ UNCHANGED <<family, normVars, sigVars>>

\* main(), extract() and the visits of the definitions: the steps every
\* walk takes.
Common ==
    \/ MainRead
    \/ MainFileNotFound
    \/ MainFatal
    \/ ParseOk
    \/ ParseFail
    \/ visit_FunctionDef
    \/ FunctionDefReturn
    \/ visit_ClassDef
    \/ ClassDefReturn
    \/ WalkRaise
    \/ ExtractReturn
    \/ MainPrint

\* The trees of definitions and calls: the input of the call graph.  An
\* assignment or an import changes nothing the call graph reads.
Next == Common \/ visit_AsyncFunctionDef \/ visit_Call

\* The trees of definitions, assignments and imports: the input of the
\* variables, constants, imports and exports.  A call changes none of them,
\* and an async def is exported like a def.
NextDecl == Common \/ visit_Assign \/ visit_AnnAssign \/ visit_Import

Spec == Init /\ [][Next]_vars

SpecDecl == InitDecl /\ [][NextDecl]_vars

----------------------------------------------------------------------------
\* The type normalizer (lines 388-580).

\* str.strip(), for the blank as the only whitespace character.
Strip(s) ==
    LET solid == {i \in 1..Len(s) : s[i] # " "}
    IN  IF solid = {} THEN <<>> ELSE SubSeq(s, Min(solid), Max(solid))

\* s.find(c) and s.rfind(c) as 1-based positions, 0 when c is not in s.
Find(s, c) ==
    LET at == {i \in 1..Len(s) : s[i] = c} IN IF at = {} THEN 0 ELSE Min(at)
RFind(s, c) ==
    LET at == {i \in 1..Len(s) : s[i] = c} IN IF at = {} THEN 0 ELSE Max(at)

\* The dict of lines 402-441, in insertion order (the order of the prefix
\* loop of lines 459-461).
type_mapping ==
    <<
       <<<<"i", "n", "t">>,
         <<"i", "n", "t">>>>,
       <<<<"f", "l", "o", "a", "t">>,
         <<"f", "l", "o", "a", "t", "6", "4">>>>,
       <<<<"s", "t", "r">>,
         <<"s", "t", "r", "i", "n", "g">>>>,
       <<<<"b", "o", "o", "l">>,
         <<"b", "o", "o", "l">>>>,
       <<<<"b", "y", "t", "e", "s">>,
         <<"[", "]", "b", "y", "t", "e">>>>,
       <<<<"b", "y", "t", "e", "a", "r", "r", "a", "y">>,
         <<"[", "]", "b", "y", "t", "e">>>>,
       <<<<"c", "o", "m", "p", "l", "e", "x">>,
         <<"c", "o", "m", "p", "l", "e", "x", "1", "2", "8">>>>,
       <<<<"l", "i", "s", "t">>,
         <<"[", "]", "i", "n", "t", "e", "r", "f", "a", "c", "e", "{", "}">>>>,
       <<<<"d", "i", "c", "t">>,
         <<"m", "a", "p", "[", "s", "t", "r", "i", "n", "g", "]", "i", "n", "t", "e", "r", "f", "a", "c", "e", "{", "}">>>>,
       <<<<"s", "e", "t">>,
         <<"m", "a", "p", "[", "i", "n", "t", "e", "r", "f", "a", "c", "e", "{", "}", "]", "s", "t", "r", "u", "c", "t", "{", "}">>>>,
       <<<<"f", "r", "o", "z", "e", "n", "s", "e", "t">>,
         <<"m", "a", "p", "[", "i", "n", "t", "e", "r", "f", "a", "c", "e", "{", "}", "]", "s", "t", "r", "u", "c", "t", "{", "}">>>>,
       <<<<"t", "u", "p", "l", "e">>,
         <<"[", "]", "i", "n", "t", "e", "r", "f", "a", "c", "e", "{", "}">>>>,
       <<<<"L", "i", "s", "t">>,
         <<"[", "]", "i", "n", "t", "e", "r", "f", "a", "c", "e", "{", "}">>>>,
       <<<<"D", "i", "c", "t">>,
         <<"m", "a", "p", "[", "s", "t", "r", "i", "n", "g", "]", "i", "n", "t", "e", "r", "f", "a", "c", "e", "{", "}">>>>,
       <<<<"S", "e", "t">>,
         <<"m", "a", "p", "[", "i", "n", "t", "e", "r", "f", "a", "c", "e", "{", "}", "]", "s", "t", "r", "u", "c", "t", "{", "}">>>>,
       <<<<"F", "r", "o", "z", "e", "n", "S", "e", "t">>,
         <<"m", "a", "p", "[", "i", "n", "t", "e", "r", "f", "a", "c", "e", "{", "}", "]", "s", "t", "r", "u", "c", "t", "{", "}">>>>,
       <<<<"T", "u", "p", "l", "e">>,
         <<"[", "]", "i", "n", "t", "e", "r", "f", "a", "c", "e", "{", "}">>>>,
       <<<<"O", "p", "t", "i", "o", "n", "a", "l">>,
         <<"*", "i", "n", "t", "e", "r", "f", "a", "c", "e", "{", "}">>>>,
       <<<<"U", "n", "i", "o", "n">>,
         <<"i", "n", "t", "e", "r", "f", "a", "c", "e", "{", "}">>>>,
       <<<<"A", "n", "y">>,
         <<"i", "n", "t", "e", "r", "f", "a", "c", "e", "{", "}">>>>,
       <<<<"C", "a", "l", "l", "a", "b", "l", "e">>,
         <<"f", "u", "n", "c", "(", ")">>>>,
       <<<<"I", "t", "e", "r", "a", "b", "l", "e">>,
         <<"[", "]", "i", "n", "t", "e", "r", "f", "a", "c", "e", "{", "}">>>>,
       <<<<"I", "t", "e", "r", "a", "t", "o", "r">>,
         <<"[", "]", "i", "n", "t", "e", "r", "f", "a", "c", "e", "{", "}">>>>,
       <<<<"G", "e", "n", "e", "r", "a", "t", "o", "r">>,
         <<"[", "]", "i", "n", "t", "e", "r", "f", "a", "c", "e", "{", "}">>>>,
       <<<<"C", "o", "r", "o", "u", "t", "i", "n", "e">>,
         <<"i", "n", "t", "e", "r", "f", "a", "c", "e", "{", "}">>>>,
       <<<<"A", "w", "a", "i", "t", "a", "b", "l", "e">>,
         <<"i", "n", "t", "e", "r", "f", "a", "c", "e", "{", "}">>>>,
       <<<<"o", "b", "j", "e", "c", "t">>,
         <<"i", "n", "t", "e", "r", "f", "a", "c", "e", "{", "}">>>>,
       <<<<"t", "y", "p", "e">>,
         <<"r", "e", "f", "l", "e", "c", "t", ".", "T", "y", "p", "e">>>>,
       <<<<"s", "l", "i", "c", "e">>,
         <<"[", "]", "i", "n", "t", "e", "r", "f", "a", "c", "e", "{", "}">>>>,
       <<<<"r", "a", "n", "g", "e">>,
         <<"[", "]", "i", "n", "t">>>>,
       <<<<"e", "n", "u", "m", "e", "r", "a", "t", "e">>,
         <<"[", "]", "i", "n", "t", "e", "r", "f", "a", "c", "e", "{", "}">>>>,
       <<<<"z", "i", "p">>,
         <<"[", "]", "i", "n", "t", "e", "r", "f", "a", "c", "e", "{", "}">>>>,
       <<<<"f", "i", "l", "t", "e", "r">>,
         <<"[", "]", "i", "n", "t", "e", "r", "f", "a", "c", "e", "{", "}">>>>,
       <<<<"m", "a", "p">>,
         <<"[", "]", "i", "n", "t", "e", "r", "f", "a", "c", "e", "{", "}">>>>
    >>
\* key in type_mapping
InMapping(key) == \E k \in 1..Len(type_mapping) : type_mapping[k][1] = key

\* type_mapping.get(key, default)
MappingGet(key, default) ==
    IF InMapping(key)
    THEN type_mapping[CHOOSE k \in 1..Len(type_mapping) :
                          type_mapping[k][1] = key][2]
    ELSE default

\* Lines 459-464: the first key that is a prefix of the text decides; with
\* none the text is returned as it is.
PrefixMatch(type_str) ==
    LET hit == {k \in 1..Len(type_mapping) :
                    StartsWith(type_str, type_mapping[k][1])}
    IN  IF hit = {} THEN type_str ELSE type_mapping[Min(hit)][2]

\* The loop of lines 562-574 from character i on.
RECURSIVE SplitFrom(_, _, _, _, _)
SplitFrom(params_str, i, params, current_param, bracket_depth) ==
    IF i > Len(params_str)
    THEN \* lines 576-580
         IF Strip(current_param) # <<>>
         THEN Append(params, Strip(current_param))
         ELSE params
    ELSE LET char == params_str[i] IN
         IF char = "["
         THEN SplitFrom(params_str, i + 1, params,
                        Append(current_param, char), bracket_depth + 1)
         ELSE IF char = "]"
         THEN SplitFrom(params_str, i + 1, params,
                        Append(current_param, char), bracket_depth - 1)
         ELSE IF char = "," /\ bracket_depth = 0
         THEN SplitFrom(params_str, i + 1,
                        Append(params, Strip(current_param)), <<>>,
                        bracket_depth)
         ELSE SplitFrom(params_str, i + 1, params,
                        Append(current_param, char), bracket_depth)

\* A split at every comma, whatever the bracket depth.
RECURSIVE SplitAtEveryComma(_, _, _, _)
SplitAtEveryComma(params_str, i, params, current_param) ==
    IF i > Len(params_str)
    THEN IF Strip(current_param) # <<>>
         THEN Append(params, Strip(current_param))
         ELSE params
    ELSE IF params_str[i] = ","
         THEN SplitAtEveryComma(params_str, i + 1,
                                Append(params, Strip(current_param)), <<>>)
         ELSE SplitAtEveryComma(params_str, i + 1, params,
                                Append(current_param, params_str[i]))
parse_type_parameters_flat(params_str) ==
    SplitAtEveryComma(params_str, 1, <<>>, <<>>)

\* _parse_type_parameters (lines 556-580).
parse_type_parameters(params_str) == SplitFrom(params_str, 1, <<>>, <<>>, 0)

tNil == <<"n", "i", "l">>
tInterface == <<"i", "n", "t", "e", "r", "f", "a", "c", "e", "{", "}">>
tStruct == <<"s", "t", "r", "u", "c", "t", "{", "}">>
tSlice == <<"[", "]">>
tFunc == <<"f", "u", "n", "c", "(", ")">>

RECURSIVE normalize_type(_)
RECURSIVE parse_generic_type(_)

\* _parse_generic_type (lines 466-554).  params is never empty here: the
\* parameter text is stripped and not empty.
parse_generic_type(type_str) ==
    LET bracket_start == Find(type_str, "[")
        bracket_end == RFind(type_str, "]")
        base_type == Strip(SubSeq(type_str, 1, bracket_start - 1))
        params_str == Strip(SubSeq(type_str, bracket_start + 1, bracket_end - 1))
        params == parse_type_parameters(params_str)
    IN  IF params_str = <<>> THEN MappingGet(base_type, type_str)
        ELSE IF base_type \in {<<"L", "i", "s", "t">>, <<"l", "i", "s", "t">>}
        THEN tSlice \o normalize_type(params[1])
        ELSE IF base_type \in {<<"D", "i", "c", "t">>, <<"d", "i", "c", "t">>}
        THEN IF Len(params) >= 2
             THEN <<"m", "a", "p", "[">> \o normalize_type(params[1]) \o <<"]">>
                    \o normalize_type(params[2])
             ELSE <<"m", "a", "p", "[">> \o normalize_type(params[1]) \o <<"]">>
                    \o tInterface
        ELSE IF base_type \in {<<"S", "e", "t">>, <<"s", "e", "t">>, <<"F", "r", "o", "z", "e", "n", "S", "e", "t">>, <<"f", "r", "o", "z", "e", "n", "s", "e", "t">>}
        THEN <<"m", "a", "p", "[">> \o normalize_type(params[1]) \o <<"]">>
                \o tStruct
        ELSE IF base_type \in {<<"T", "u", "p", "l", "e">>, <<"t", "u", "p", "l", "e">>}
        THEN IF Len(params) = 1
             THEN tSlice \o normalize_type(params[1])
             ELSE tSlice \o tInterface
        ELSE IF base_type = <<"O", "p", "t", "i", "o", "n", "a", "l">>
        THEN LET inner_type == normalize_type(params[1])
             IN  IF inner_type = tInterface THEN <<"*">> \o tInterface
                 ELSE IF StartsWith(inner_type, <<"*">>) THEN inner_type
                 ELSE <<"*">> \o inner_type
        ELSE IF base_type = <<"U", "n", "i", "o", "n">> THEN tInterface
        ELSE IF base_type = <<"C", "a", "l", "l", "a", "b", "l", "e">> THEN tFunc
        ELSE MappingGet(base_type, type_str)

\* _normalize_type (lines 388-464).
normalize_type(type_str) ==
    IF type_str \in {<<"N", "o", "n", "e">>, <<"N", "o", "n", "e", "T", "y", "p", "e">>} THEN tNil
    ELSE IF Strip(type_str) = <<>> THEN tInterface
    ELSE LET s == Strip(type_str) IN
         IF InMapping(s) THEN MappingGet(s, s)
         ELSE IF HasChar(s, "[") /\ HasChar(s, "]") THEN parse_generic_type(s)
         ELSE IF StartsWith(s, <<"\"">>) /\ EndsWith(s, <<"\"">>)
         THEN normalize_type(SubSeq(s, 2, Len(s) - 1))
         ELSE IF StartsWith(s, <<"'">>) /\ EndsWith(s, <<"'">>)
         THEN normalize_type(SubSeq(s, 2, Len(s) - 1))
         ELSE PrefixMatch(s)

----------------------------------------------------------------------------
\* The normalizer on its own: the text is drawn in the initial state, the
\* actions apply _normalize_type (again and again to its own result) or
\* _parse_type_parameters to it.

Generic1(base, p) == base \o <<"[">> \o p \o <<"]">>
Generic2(base, p, q) == base \o <<"[">> \o p \o <<",", " ">> \o q \o <<"]">>

TypeAtoms ==
    {<<"i", "n", "t">>, <<"s", "t", "r">>, <<"d", "i", "c", "t">>, <<"N", "o", "n", "e">>, <<"A", "n", "y">>, <<"F", "o", "o">>,
     <<"L", "i", "s", "t", "e", "n", "e", "r">>, <<>>}
TypeBases ==
    {<<"L", "i", "s", "t">>, <<"D", "i", "c", "t">>, <<"O", "p", "t", "i", "o", "n", "a", "l">>, <<"M", "a", "p", "p", "i", "n", "g">>, <<"T", "u", "p", "l", "e">>, <<"U", "n", "i", "o", "n">>}

TypeGeneric1 == {Generic1(b, p) : b \in TypeBases, p \in TypeAtoms}
TypeGeneric2 == {Generic2(b, p, q) : b \in TypeBases, p \in TypeAtoms, q \in TypeAtoms}
TypeNested ==
    {Generic1(b, g) : b \in TypeBases, g \in TypeGeneric1}
    \cup {Generic2(b, <<"s", "t", "r">>, g) : b \in {<<"M", "a", "p", "p", "i", "n", "g">>, <<"D", "i", "c", "t">>}, g \in TypeGeneric1}
TypeQuoted ==
    {<<q>> \o x \o <<q>> : q \in {"'", "\""}, x \in TypeAtoms \cup TypeGeneric1}
TypePadded == {<<" ">> \o x \o <<" ">> : x \in TypeAtoms}

TypeStrings ==
    TypeAtoms \cup TypeGeneric1 \cup TypeGeneric2 \cup TypeNested
    \cup TypeQuoted \cup TypePadded

ParamChars == {"a", "[", "]", ",", " "}
ParamStrings ==
    UNION {[1..n -> ParamChars] : n \in 0..MaxParamLen}
    \cup {<<"s", "t", "r", ",", " ", "L", "i", "s", "t", "[", "i", "n", "t", "]">>, <<"D", "i", "c", "t", "[", "s", "t", "r", ",", " ", "i", "n", "t", "]", ",", " ", "b", "o", "o", "l">>, <<"i", "n", "t", ",">>}

InitNorm ==
    /\ family = "none"
    /\ WalkInit
    /\ SigIdle
    /\ nOut = <<>>
    /\ nPrev = <<>>
    /\ nParams = <<>>
    /\ nApplied = 0
    /\ \/ nMode = "type" /\ nIn \in TypeStrings
       \/ nMode = "params" /\ nIn \in ParamStrings

\* One call of _normalize_type: on the input first, then on its own result.
NormalizeType ==
    /\ nMode = "type"
    /\ nApplied < MaxApply
    /\ nOut' = normalize_type(IF nApplied = 0 THEN nIn ELSE nOut)
    /\ nPrev' = nOut
    /\ nApplied' = nApplied + 1
    /\ UNCHANGED <<nIn, nParams, nMode>>
    /\ UNCHANGED <<family, walkVars, sigVars>>

\* One call of _parse_type_parameters.
ParseTypeParameters ==
    /\ nMode = "params"
    /\ nApplied = 0
    /\ nParams' = parse_type_parameters(nIn)
    /\ nApplied' = 1
    /\ UNCHANGED <<nIn, nOut, nPrev, nMode>>
    /\ UNCHANGED <<family, walkVars, sigVars>>

NextNorm == NormalizeType \/ ParseTypeParameters

SpecNorm == InitNorm /\ [][NextNorm]_vars

----------------------------------------------------------------------------
\* _extract_function (lines 103-168) on its own: the function definition
\* node is drawn in the initial state, the action applies the function.
\*
\* An optional child of the node (an annotation, vararg, kwarg, returns) is
\* <<>> when it is None and a one-element list of its value otherwise; an
\* annotation is its unparsed text.

ArgNames == {<<"s", "e", "l", "f">>, <<"a">>, <<"b">>}
Annotations == {<<>>, <<<<"i", "n", "t">>>>, <<<<"A", "n", "y">>>>}
ReturnAnnotations == {<<>>, <<<<"N", "o", "n", "e">>>>, <<<<"i", "n", "t">>>>}
StarAnnotations == {<<>>, <<<<"i", "n", "t">>>>}

\* node.args.args: up to MaxArgs parameters of different names.
ArgLists ==
    {l \in UNION {[1..n -> [arg : ArgNames, annotation : Annotations]] :
                    n \in 0..MaxArgs} :
        \A i, j \in 1..Len(l) : l[i].arg = l[j].arg => i = j}

\* The unparsed text of the k-th default expression of the signature.
DefaultText(k) == <<<<"1", "2", "3", "4", "5", "6", "7", "8", "9">>[k]>>

\* The lists of d default expressions.  ast.unparse raises on an expression
\* nested too deep for the recursion limit: unparses tells whether it
\* returns the text.  At most one default of a signature is that deep.
DefaultLists(d) ==
    {[k \in 1..d |-> [text |-> DefaultText(k), unparses |-> k # deep]] :
        deep \in 0..d}

\* Lines 127-130: the text of the default, "None" when ast.unparse raised.
unparse_default(default) ==
    IF default.unparses THEN default.text ELSE <<"N", "o", "n", "e">>

\* The function definition nodes: ast.parse gives a node at most as many
\* defaults as it has positional-only and positional parameters.
FunctionNodes ==
    {n \in [posonlyargs : {<<>>, <<[arg |-> <<"p">>, annotation |-> <<>>]>>},
            args : ArgLists,
            vararg : {<<>>} \cup
                     {<<[arg |-> <<"v">>, annotation |-> t]>> : t \in StarAnnotations},
            kwonlyargs : {<<>>, <<[arg |-> <<"k">>, annotation |-> <<>>]>>},
            kwarg : {<<>>} \cup
                    {<<[arg |-> <<"w">>, annotation |-> t]>> : t \in StarAnnotations},
            defaults : UNION {DefaultLists(d) : d \in 0..(MaxArgs + 1)},
            returns : ReturnAnnotations] :
        Len(n.defaults) <= Len(n.posonlyargs) + Len(n.args)}

tAny == <<"A", "n", "y">>
tNone == <<"N", "o", "n", "e">>
tTuple == <<"t", "u", "p", "l", "e">>
tDict == <<"d", "i", "c", "t">>

\* Defaults handed out from the first parameter on.
default_index_leading(i, num_args, num_defaults) ==
    IF i < num_defaults THEN i ELSE -1

\* Line 125: the index in defaults of the default of the parameter at
\* index i of node.args.args, negative when it has none.
default_index_of(i, num_args, num_defaults) == i - (num_args - num_defaults)

\* Lines 105-150: the parameters and returns of the func_info.  A parameter
\* dict has the key "default" or not: default is <<>> or the one text.
extract_function(node, in_class) ==
    LET defaults == node.defaults
        num_defaults == Len(defaults)
        num_args == Len(node.args)
        start_index ==
            IF in_class /\ num_args > 0 /\ node.args[1].arg = <<"s", "e", "l", "f">>
            THEN 1 ELSE 0
        param_info(i) ==
            LET arg == node.args[i + 1]
                default_index == default_index_of(i, num_args, num_defaults)
            IN  [name |-> arg.arg,
                 type |-> IF arg.annotation # <<>>
                          THEN normalize_type(arg.annotation[1]) ELSE tAny,
                 default |-> IF default_index >= 0
                             THEN <<unparse_default(defaults[default_index + 1])>>
                             ELSE <<>>]
        positional ==
            [j \in 1..(num_args - start_index) |-> param_info(start_index + j - 1)]
        vararg ==
            IF node.vararg # <<>>
            THEN <<[name |-> <<"*">> \o node.vararg[1].arg, type |-> tTuple,
                    default |-> <<>>]>>
            ELSE <<>>
        kwarg ==
            IF node.kwarg # <<>>
            THEN <<[name |-> <<"*", "*">> \o node.kwarg[1].arg, type |-> tDict,
                    default |-> <<>>]>>
            ELSE <<>>
    IN  [parameters |-> positional \o vararg \o kwarg,
         returns |-> <<[name |-> IF node.returns # <<>>
                                 THEN normalize_type(node.returns[1]) ELSE tNone,
                        kind |-> "builtin"]>>]

InitSig ==
    /\ family = "none"
    /\ WalkInit
    /\ NormIdle
    /\ sNode \in FunctionNodes
    /\ sClass \in BOOLEAN
    /\ sInfo = <<>>
    /\ sDone = FALSE

\* One call of _extract_function (lines 69, 88).
ExtractFunction ==
    /\ ~sDone
    /\ sNode # <<>>
    /\ sInfo' = extract_function(sNode, sClass)
    /\ sDone' = TRUE
    /\ UNCHANGED <<sNode, sClass>>
    /\ UNCHANGED <<family, walkVars, normVars>>

NextSig == ExtractFunction

SpecSig == InitSig /\ [][NextSig]_vars

----------------------------------------------------------------------------
\* Vocabulary of the properties.

Range(seq) == {seq[k] : k \in 1..Len(seq)}

Collections ==
    {"functions", "types", "variables", "constants", "imports", "exports"}

\* The record carries no data.
NoData(r) == \A c \in Collections : r[c] = <<>>

\* extract() has returned the record of a successful run.
Extracted == pc = "returned" /\ result.errors = <<>>

\* The func_info was created for a def that stands at module level.
TopLevel(f) == defsites[f].parent.kind = "module"

----------------------------------------------------------------------------
\* C1 (SpecDecl).  Module-scope gating: while a function or a class is being
\* visited, no step of the walk adds to (or changes) self.variables or
\* self.constants; assignments are recorded only at module level.
C1_ModuleScopeGating ==
    [][(pc = "walk" /\ pc' = "walk" /\ frames # <<>>)
          => (variables' = variables /\ constants' = constants)]_vars

\* C2 (Spec).  Call attachment: after a successful extract(), for every
\* bare-name call b() that stands in the body of a top-level function a and
\* every top-level function b of another name, the record of a has a raw
\* call named b of type "function", and the called_by of b names a.
C2_CallAttachment ==
    Extracted =>
        \A k \in 1..Len(sites) : \A g \in 1..Len(funcs) :
            LET a == sites[k].encl IN
            (/\ sites[k].type = "function"
             /\ TopLevel(a)
             /\ TopLevel(g)
             /\ funcs[g].name = sites[k].name
             /\ funcs[g].name # funcs[a].name)
            => /\ \E c \in Range(funcs[a].calls) :
                      c.name = sites[k].name /\ c.type = "function"
               /\ funcs[a].name \in Range(funcs[g].called_by)

\* C3 (Spec).  Receiver.method resolution: after a successful extract(),
\* for two methods m and helper of one class where the body of m has the
\* call self.helper(), the called_by of helper names m.
C3_SelfMethodResolution ==
    Extracted =>
        \A c \in Range(classes) : \A m, h \in Range(clss[c].methods) :
            (/\ funcs[m].name # funcs[h].name
             /\ \E k \in 1..Len(sites) :
                   /\ sites[k].encl = m
                   /\ sites[k].type = "method"
                   /\ sites[k].name = <<"s", "e", "l", "f", ".">> \o funcs[h].name)
            => funcs[m].name \in Range(funcs[h].called_by)

\* A record has every collection and the error list, and is all data and no
\* error or one error list and no data.
AllOrNothing(r) ==
    /\ Collections \cup {"errors"} \subseteq DOMAIN r
    /\ r.errors = <<>> \/ NoData(r)

\* C4 (SpecDecl).  All-or-nothing record: the record extract() returned and
\* every record main() printed has all seven lists, and has an empty error
\* list or six empty collections.
C4_AllOrNothing ==
    /\ result # NoRecord => AllOrNothing(result)
    /\ \A k \in 1..Len(out) : AllOrNothing(out[k])

\* C4 witness: the walk failed after it had gathered functions, variables
\* and imports, and extract() returned an error record.
C4_FailureAfterData ==
    /\ pc = "returned"
    /\ failed = <<"walk">>
    /\ functions # <<>> /\ variables # <<>> /\ imports # <<>>
    /\ result.errors # <<>>

\* C5 (Spec).  Failure scenario: a run whose only failure is that the text
\* did not parse prints one record with empty collections and exactly one
\* error and ends with status 0; a run whose file does not exist prints one
\* such record and ends with a status other than 0.
C5_FailureScenario ==
    pc = "done" =>
        /\ failed = <<"parse">> =>
              /\ Len(out) = 1 /\ NoData(out[1]) /\ Len(out[1].errors) = 1
              /\ exit_code = 0
        /\ failed = <<"file not found">> =>
              /\ Len(out) = 1 /\ NoData(out[1]) /\ Len(out[1].errors) = 1
              /\ exit_code > 0

\* C5 witness: the run of a text that did not parse has ended.
C5_ParseFailureRun ==
    pc = "done" /\ failed = <<"parse">> /\ Len(out) = 1 /\ exit_code = 0

\* C6 (Spec).  Fatal extraction error: a run in which the walk raised, or
\* the output failed after extract() returned, prints a record with errors
\* and no data and ends with a status other than 0.
C6_FatalExitStatus ==
    (pc = "done" /\ (\E k \in 1..Len(failed) : failed[k] \in {"walk", "emit"}))
        => /\ Len(out) = 1 /\ NoData(out[1]) /\ out[1].errors # <<>>
           /\ exit_code > 0

\* C7 (SpecNorm).  Idempotence: _normalize_type applied to its own result
\* returns that result.
C7_Idempotent ==
    (nMode = "type" /\ nApplied >= 2) => nOut = nPrev

\* The brackets of the text are balanced: none closes what is not open and
\* none stays open.
RECURSIVE DepthAfter(_, _)
DepthAfter(text, k) ==
    IF k = 0 THEN 0
    ELSE DepthAfter(text, k - 1)
            + (IF text[k] = "[" THEN 1 ELSE IF text[k] = "]" THEN -1 ELSE 0)
Balanced(text) ==
    /\ \A k \in 1..Len(text) : DepthAfter(text, k) >= 0
    /\ DepthAfter(text, Len(text)) = 0

\* The text without its blanks, and the texts of a list joined by commas.
NoBlanks(text) == SelectSeq(text, LAMBDA c : c # " ")
RECURSIVE JoinComma(_)
JoinComma(list) ==
    IF list = <<>> THEN <<>>
    ELSE IF Len(list) = 1 THEN list[1]
    ELSE list[1] \o <<",">> \o JoinComma(Tail(list))

\* C8 as stated (SpecNorm).  For a parameter text with balanced brackets
\* every returned parameter has balanced brackets and the parameters joined
\* by commas are the text up to blanks.
C8_SplitReproducesInput ==
    (nMode = "params" /\ nApplied = 1 /\ Balanced(nIn))
        => /\ \A k \in 1..Len(nParams) : Balanced(nParams[k])
           /\ NoBlanks(JoinComma(nParams)) = NoBlanks(nIn)

\* C8 as amended (SpecNorm).  For a parameter text with balanced brackets
\* every returned parameter has balanced brackets, and the parameters joined
\* by commas are the text up to blanks and up to one trailing comma: a last
\* parameter that is empty or blank is dropped.  The text of the parameters
\* of Mapping[str, List[int]] gives str and List[int], and Dict[str, int]
\* stays one parameter.
C8_SplitAtDepthZero ==
    /\ (nMode = "params" /\ nApplied = 1 /\ Balanced(nIn))
        => /\ \A k \in 1..Len(nParams) : Balanced(nParams[k])
           /\ NoBlanks(JoinComma(nParams)) =
                 IF EndsWith(NoBlanks(nIn), <<",">>)
                 THEN Front(NoBlanks(nIn)) ELSE NoBlanks(nIn)
    /\ (nMode = "params" /\ nApplied = 1 /\ nIn = <<"s", "t", "r", ",", " ", "L", "i", "s", "t", "[", "i", "n", "t", "]">>)
        => nParams = <<<<"s", "t", "r">>, <<"L", "i", "s", "t", "[", "i", "n", "t", "]">>>>
    /\ (nMode = "params" /\ nApplied = 1 /\ nIn = <<"D", "i", "c", "t", "[", "s", "t", "r", ",", " ", "i", "n", "t", "]", ",", " ", "b", "o", "o", "l">>)
        => nParams = <<<<"D", "i", "c", "t", "[", "s", "t", "r", ",", " ", "i", "n", "t", "]">>, <<"b", "o", "o", "l">>>>

\* C8 witness: the parameters of Mapping[str, List[int]] were split in two.
C8_NestedSplit ==
    /\ nMode = "params" /\ nApplied = 1
    /\ nIn = <<"s", "t", "r", ",", " ", "L", "i", "s", "t", "[", "i", "n", "t", "]">>
    /\ Len(nParams) = 2

\* The names of the records of one export kind.
NamesOfKind(kind) ==
    CASE kind = "function" -> {funcs[f].name : f \in Range(functions)}
      [] kind = "class" -> {clss[c].name : c \in Range(classes)}
      [] kind = "variable" -> {v.name : v \in Range(variables)}
      [] kind = "constant" -> {v.name : v \in Range(constants)}

\* C9 (SpecDecl).  Visibility of exports: after a successful extract() the
\* exports have an entry (n, kind) exactly when the collection of that kind
\* has a record named n and n does not start with an underscore.
C9_ExportsVisibility ==
    Extracted =>
        \A kind \in {"function", "class", "variable", "constant"} :
            {e.name : e \in {x \in Range(result.exports) : x.type = kind}}
                = {n \in NamesOfKind(kind) : n[1] # "_"}

\* C9 witness: a public and a private constant and a private function were
\* extracted, and the public constant is exported as a constant.
C9_PublicConstantExported ==
    /\ Extracted
    /\ {<<"X">>, <<"_", "X">>} \subseteq NamesOfKind("constant")
    /\ <<"_", "h">> \in NamesOfKind("function")
    /\ \E e \in Range(result.exports) : e.name = <<"X">> /\ e.type = "constant"

\* C10 (Spec).  Innermost-only call attachment: during the walk every call
\* that stands inside a function definition is in the calls of the record of
\* its innermost enclosing definition and in the calls of no other record.
C10_InnermostOnly ==
    pc = "walk" =>
        \A k \in 1..Len(sites) : \A f \in 1..Len(funcs) :
            (\E c \in Range(funcs[f].calls) : c.line = sites[k].line)
                <=> f = sites[k].encl

\* The function definitions that textually contain the body of f, f included.
RECURSIVE EnclosingChain(_)
EnclosingChain(f) ==
    IF f = 0 THEN {} ELSE {f} \cup EnclosingChain(defsites[f].encl)

\* No two function definitions of the tree have the same name.
DistinctNames ==
    \A f, g \in 1..Len(funcs) : funcs[f].name = funcs[g].name => f = g

\* C11 (Spec).  Completeness of a calls list: after a successful extract()
\* of a tree whose functions have distinct names, the calls of every
\* function record hold every call that stands inside the body of that
\* function, the calls inside the functions nested in it included, and hold
\* them in source order.
C11_CallsComplete ==
    (Extracted /\ DistinctNames) =>
        \A f \in 1..Len(funcs) :
            /\ \A k \in 1..Len(sites) :
                  f \in EnclosingChain(sites[k].encl)
                      => \E c \in Range(funcs[f].calls) : c.line = sites[k].line
            /\ \A i, j \in 1..Len(funcs[f].calls) :
                  i < j => funcs[f].calls[i].line < funcs[f].calls[j].line

\* The raw calls of record f of the heap that name a function of the file:
\* a bare name (no dot) that is the name of some record.
LocalCallsTo(heap, f, name) ==
    {i \in 1..Len(heap[f].calls) :
        /\ heap[f].calls[i].name = name
        /\ ~HasChar(name, ".")
        /\ \E h \in 1..Len(heap) : heap[h].name = name}

\* In the heap, for all records f and g, the name of f is in the called_by
\* of g exactly when the name of g is in the calls_functions of a record
\* named like f, which is exactly when the raw calls of that record have a
\* bare-name call of g's name; the called_by of g has one entry per such raw
\* call and no other.
EdgesAreResolvedCalls(heap) ==
    /\ \A f, g \in 1..Len(heap) :
          LET like == {h \in 1..Len(heap) : heap[h].name = heap[f].name}
          IN  /\ heap[f].name \in Range(heap[g].called_by)
                    <=> \E h \in like :
                            heap[g].name \in Range(heap[h].calls_functions)
              /\ \A h \in like :
                    heap[g].name \in Range(heap[h].calls_functions)
                        <=> LocalCallsTo(heap, h, heap[g].name) # {}
    /\ \A g \in 1..Len(heap) :
          Len(heap[g].called_by) =
              Cardinality({<<h, i>> \in (1..Len(heap)) \X (1..MaxNodes) :
                              i \in LocalCallsTo(heap, h, heap[g].name)})

\* C12 (Spec).  Call-graph edges are exactly the locally resolved calls: the
\* step of a successful extract() that builds the call graph leaves the
\* records with called_by and calls_functions that mirror each other and
\* hold exactly the bare-name raw calls of names of the file, and leaves
\* every raw calls list as it was: an unresolved call stays there and adds
\* no called_by entry.
C12_EdgesAreResolvedCalls ==
    [][(pc = "walk" /\ pc' = "returned" /\ result'.errors = <<>>)
          => /\ Len(funcs') = Len(funcs)
             /\ \A f \in 1..Len(funcs) : funcs'[f].calls = funcs[f].calls
             /\ EdgesAreResolvedCalls(funcs')
      ]_vars

\* C12 witness: a function a calls b() and o.b(), b is a function of the
\* file: b is called by a once, and o.b stays a raw call of a.
C12_ResolvedAndUnresolved ==
    /\ Extracted
    /\ \E f, g \in 1..Len(funcs) :
          /\ funcs[f].name = <<"a">> /\ funcs[g].name = <<"b">>
          /\ funcs[g].called_by = <<<<"a">>>>
          /\ funcs[f].calls_functions = <<<<"b">>>>
          /\ \E c \in Range(funcs[f].calls) : c.name = <<"o", ".", "b">>

\* The number of underscores a name starts with.
LeadingUnderscores(name) ==
    Cardinality({k \in 1..Len(name) : \A j \in 1..k : name[j] = "_"})

\* The rule of the classification as stated: at most one leading underscore,
\* and what follows it is all-uppercase.
StatedConstant(name) ==
    /\ LeadingUnderscores(name) <= 1
    /\ IsUpper(SubSeq(name, LeadingUnderscores(name) + 1, Len(name)))

\* C13 (SpecDecl).  Constant classification: every visit of an assignment
\* to a name at module level appends one record of that name to exactly one
\* of constants and variables, and to constants exactly when the name is
\* all-uppercase after at most one leading underscore; a name with two or
\* more leading underscores, or with a lowercase letter, goes to variables.
C13_ConstantClassification ==
    [][(/\ pc = "walk" /\ pc' = "walk"
        /\ frames = <<>> /\ frames' = <<>>
        /\ nodes' = nodes + 1
        /\ imports' = imports)
          => \E name \in VarNames :
                LET grown(old, new) ==
                        /\ Len(new) = Len(old) + 1
                        /\ SubSeq(new, 1, Len(old)) = old
                        /\ new[Len(new)].name = name
                IN  IF StatedConstant(name)
                    THEN grown(constants, constants') /\ variables' = variables
                    ELSE grown(variables, variables') /\ constants' = constants
      ]_vars

\* How often the list has the element.
Occurrences(list, x) == Cardinality({k \in 1..Len(list) : list[k] = x})

\* The function definitions that stand directly in the body of class c.
DefinedDirectlyIn(c) ==
    {f \in 1..Len(funcs) : defsites[f].parent = [kind |-> "class", node |-> c]}

\* C14 (Spec).  Method ownership: after a successful extract() every
\* function definition visited is recorded exactly once, in the top-level
\* functions or in the methods of one class; the methods of a class are
\* exactly the functions defined directly in its body, each with is_method
\* true and the class name, and none of them is in the top-level functions;
\* a function defined inside the body of a method is no method of the class.
C14_MethodOwnership ==
    Extracted =>
        /\ \A f \in 1..Len(funcs) :
              Occurrences(functions, f)
                + Occurrences(Flatten([c \in 1..Len(clss) |-> clss[c].methods]), f)
                = 1
        /\ \A c \in 1..Len(clss) :
              /\ Range(clss[c].methods) = DefinedDirectlyIn(c)
              /\ \A f \in DefinedDirectlyIn(c) :
                    /\ funcs[f].is_method = "True"
                    /\ funcs[f].class_name = clss[c].name
                    /\ f \notin Range(functions)

\* A plain type name: not empty, no blank, bracket or quote, and not one of
\* the spellings of the absent value.
PlainName(text) ==
    /\ text # <<>>
    /\ \A k \in 1..Len(text) : text[k] \notin {" ", "[", "]", "'", "\""}
    /\ text \notin {<<"N", "o", "n", "e">>,
                    <<"N", "o", "n", "e", "T", "y", "p", "e">>}

\* C15 (SpecNorm).  No prefix mis-mapping: _normalize_type returns every
\* plain type name that is not a key of the lookup table unchanged, also
\* when the name starts with a key: Listener is not mapped by the entry of
\* List.
C15_NoPrefixMismapping ==
    (nMode = "type" /\ nApplied = 1 /\ PlainName(nIn) /\ ~InMapping(nIn))
        => nOut = nIn

\* The recorded parameter of that name.
ParamNamed(name) ==
    CHOOSE q \in Range(sInfo.parameters) : q.name = name

\* C16 (SpecSig).  Consistent placeholder tokens: the type recorded for a
\* parameter without annotation is the token _normalize_type returns for an
\* empty text, which is also its result for Any, and the return type
\* recorded for a function without return annotation is the token
\* _normalize_type returns for None.
C16_PlaceholderTokens ==
    sDone =>
        /\ normalize_type(<<>>) = normalize_type(tAny)
        /\ \A k \in 1..Len(sNode.args) :
              (/\ sNode.args[k].annotation = <<>>
               /\ \E q \in Range(sInfo.parameters) : q.name = sNode.args[k].arg)
                  => ParamNamed(sNode.args[k].arg).type = normalize_type(<<>>)
        /\ sNode.returns = <<>> => sInfo.returns[1].name = normalize_type(tNone)

\* The text is some text wrapped in one layer of matching quotes.
Quoted(text) ==
    /\ Len(text) >= 2
    /\ text[1] \in {"'", "\""}
    /\ text[Len(text)] = text[1]

\* C17 (SpecNorm).  Forward-reference unquoting: for every type text t, a
\* parametrized one such as List[int] included, _normalize_type applied to
\* t wrapped in matching quotes returns what it returns for t.
C17_Unquoting ==
    (nMode = "type" /\ nApplied = 1 /\ Quoted(nIn))
        => nOut = normalize_type(SubSeq(nIn, 2, Len(nIn) - 1))

\* The text has the other text as a contiguous part.
Contains(text, part) ==
    \E i \in 0..(Len(text) - Len(part)) : SubSeq(text, i + 1, i + Len(part)) = part

\* The text is a parametrized type base[...] with a plain base name.
Parametrized(text) ==
    /\ Len(text) >= 3
    /\ text[Len(text)] = "]"
    /\ Find(text, "[") > 1
    /\ PlainName(SubSeq(text, 1, Find(text, "[") - 1))
    /\ Balanced(text)

\* Its top-level parameters.
TopLevelParameters(text) ==
    parse_type_parameters(SubSeq(text, Find(text, "[") + 1, Len(text) - 1))

\* C18 (SpecNorm).  Recursive normalization of type parameters: for every
\* parametrized type text base[p1, ..., pn], whatever the base, the result
\* of _normalize_type is assembled from the normalized parameters: it has the
\* normalized text of every top-level parameter as a part, so a parameter
\* str is in the result as string.
C18_ParametersNormalized ==
    (nMode = "type" /\ nApplied = 1 /\ Parametrized(nIn))
        => \A k \in 1..Len(TopLevelParameters(nIn)) :
              Contains(nOut, normalize_type(TopLevelParameters(nIn)[k]))

\* The positions of the recorded parameters of that name.
PositionsOf(name) ==
    {k \in 1..Len(sInfo.parameters) : sInfo.parameters[k].name = name}

\* The variadic parameter star (<<>> or the one arg node), recorded under
\* the name with the prefix: one Parameter, after the first upto ones, of
\* the generic type without annotation and of a type that has the
\* normalized annotation as a part with one.
VariadicRecorded(star, prefix, generic, upto) ==
    star # <<>> =>
        /\ Cardinality(PositionsOf(prefix \o star[1].arg)) = 1
        /\ \A k \in PositionsOf(prefix \o star[1].arg) :
              /\ k > upto
              /\ IF star[1].annotation = <<>>
                 THEN sInfo.parameters[k].type = generic
                 ELSE Contains(sInfo.parameters[k].type,
                               normalize_type(star[1].annotation[1]))

\* C19 (SpecSig).  Variadic parameters: *args and **kwargs are each
\* recorded as exactly one Parameter after the positional ones, under the
\* name with the * or ** prefix, of type tuple or dict when there is no
\* annotation and of a type derived from the annotation when there is one.
C19_VariadicParameters ==
    sDone =>
        LET positional ==
                Len(sInfo.parameters)
                  - (IF sNode.vararg # <<>> THEN 1 ELSE 0)
                  - (IF sNode.kwarg # <<>> THEN 1 ELSE 0)
        IN  /\ VariadicRecorded(sNode.vararg, <<"*">>, tTuple, positional)
            /\ VariadicRecorded(sNode.kwarg, <<"*", "*">>, tDict, positional)

\* The open definitions of one kind, outermost first.
OpenFrames(kind) == SelectSeq(frames, LAMBDA fr : fr.kind = kind)

\* C20 (Spec).  Stack discipline of the walker: at every point of the walk
\* the three stacks mirror the definitions whose visit is open and nothing
\* else: scope_stack is "module" and one class frame per open class,
\* call_stack the names of the open functions, current_class the innermost
\* open class or None.  So the return of a visit leaves them as they were
\* at its entry, a sibling sees no frame of an earlier sibling, and a
\* successful walk ends with ["module"], None and the empty call stack.
C20_StackDiscipline ==
    /\ pc = "walk" =>
          /\ scope_stack =
                <<<<"module">>>>
                \o [k \in 1..Len(OpenFrames("class")) |->
                       <<"c", "l", "a", "s", "s", ":">>
                       \o clss[OpenFrames("class")[k].node].name]
          /\ call_stack =
                [k \in 1..Len(OpenFrames("func")) |->
                    funcs[OpenFrames("func")[k].node].name]
          /\ current_class =
                IF OpenFrames("class") = <<>> THEN 0
                ELSE Last(OpenFrames("class")).node
    /\ Extracted =>
          /\ scope_stack = <<<<"module">>>>
          /\ current_class = 0
          /\ call_stack = <<>>

\* C20 witness: a class with a method was visited and has returned, and the
\* body of a sibling function at module level is being visited: it sees no
\* class and only its own name on the call stack.
C20_SiblingAfterClass ==
    /\ pc = "walk"
    /\ classes # <<>>
    /\ clss[classes[1]].methods # <<>>
    /\ Len(frames) = 1
    /\ frames[1].kind = "func"
    /\ current_class = 0
    /\ Len(call_stack) = 1
    /\ scope_stack = <<<<"module">>>>

\* The parameter at index j of node.args.args is recorded: it is not the
\* leading self of a function defined while a class is visited.
Recorded(j) ==
    ~(j = 1 /\ sClass /\ sNode.args[1].arg = <<"s", "e", "l", "f">>)

\* The alignment of the defaults.  Of the n positional parameters (the
\* positional-only ones first) the last d have the defaults: the recorded
\* parameter at original position i (from 0) has a default exactly when
\* i >= n - d, and it is the text of the default expression at index
\* i - (n - d); with placeholder, it is None for an expression that cannot
\* be unparsed.
DefaultsAligned(placeholder) ==
    LET n == Len(sNode.posonlyargs) + Len(sNode.args)
        d == Len(sNode.defaults)
    IN  \A j \in 1..Len(sNode.args) :
            LET i == Len(sNode.posonlyargs) + j - 1
            IN  Recorded(j) =>
                    /\ Cardinality(PositionsOf(sNode.args[j].arg)) = 1
                    /\ ParamNamed(sNode.args[j].arg).default =
                          IF i >= n - d
                          THEN LET e == sNode.defaults[i - (n - d) + 1]
                               IN  IF placeholder /\ ~e.unparses
                                   THEN <<tNone>> ELSE <<e.text>>
                          ELSE <<>>

\* C21 as stated (SpecSig).  Default-value alignment: the recorded parameter
\* at original position i has a default exactly when i >= n - d, and it is
\* the text of the default expression at index i - (n - d); the stripping of
\* a leading self shifts no default.
C21_DefaultIsExpressionText ==
    sDone => DefaultsAligned(FALSE)

\* C21 as amended (SpecSig).  Default-value alignment: the recorded
\* parameter at original position i has a default exactly when i >= n - d,
\* and it is the text of the default expression at index i - (n - d), or the
\* placeholder None when that expression cannot be unparsed; the stripping
\* of a leading self shifts no default.
C21_DefaultAlignment ==
    sDone => DefaultsAligned(TRUE)

\* C21 witness: a method (p, /, self, a = 1) defined in a class, with a
\* default that unparses: self is stripped and a has the default 1.
C21_MethodWithDefault ==
    /\ sDone /\ sClass
    /\ Len(sNode.posonlyargs) = 1
    /\ Len(sNode.args) = 2 /\ Len(sNode.defaults) = 1
    /\ sNode.args[1].arg = <<"s", "e", "l", "f">>
    /\ sNode.defaults[1].unparses
    /\ Len(sInfo.parameters) >= 1
    /\ sInfo.parameters[1].name = sNode.args[2].arg
    /\ sInfo.parameters[1].default = <<<<"1">>>>

\* The names of the arg nodes of a list, each with the prefix.
ArgNamesOf(list, prefix) == [k \in 1..Len(list) |-> prefix \o list[k].arg]

\* The parameters the signature declares, in declaration order, as they are
\* named in a record: positional-only, positional, *variadic, keyword-only,
\* **keyword-variadic.
DeclaredNames ==
    ArgNamesOf(sNode.posonlyargs, <<>>)
    \o ArgNamesOf(sNode.args, <<>>)
    \o ArgNamesOf(sNode.vararg, <<"*">>)
    \o ArgNamesOf(sNode.kwonlyargs, <<>>)
    \o ArgNamesOf(sNode.kwarg, <<"*", "*">>)

\* C22 (SpecSig).  Parameter completeness: the parameters of the func_info
\* are, in declaration order, one entry for every parameter the signature
\* declares, positional-only, positional, variadic, keyword-only and
\* keyword-variadic, less only a leading parameter self of a function
\* defined while a class is visited.
C22_ParameterCompleteness ==
    sDone =>
        [k \in 1..Len(sInfo.parameters) |-> sInfo.parameters[k].name]
            = IF /\ sClass
                 /\ DeclaredNames # <<>>
                 /\ DeclaredNames[1] = <<"s", "e", "l", "f">>
              THEN Tail(DeclaredNames) ELSE DeclaredNames

====
